---- MODULE Spec2Model ----
(***************************************************************************)
(* Felipe, the 3D file manager of src/src/main.rs, as a state machine.     *)
(*                                                                         *)
(* The state is the three resources (CurrentDirectory, VimMode,            *)
(* CameraState), the FileEntity / FileLabel entities of the world, the     *)
(* StandardMaterial assets the blocks point to, the command buffer of the  *)
(* current frame, and the set of Update systems that have already run in   *)
(* the current frame.                                                      *)
(*                                                                         *)
(* Spec schedules the four systems that read or write the directory state  *)
(* and the entities: load_directory, despawn_file_entities,                *)
(* spawn_file_entities and handle_keyboard.  SpecRender schedules          *)
(* update_file_materials with them.  Of a block the model keeps the marker *)
(* component and the material handle, of a label the marker and the text.  *)
(* Meshes, transforms, text colours and the camera distance belong to the  *)
(* other systems of the schedule (handle_mouse_wheel, update_camera,       *)
(* update_file_labels, update_ui, draw_grid), which write none of the      *)
(* state modelled here.                                                    *)
(*                                                                         *)
(* main hands the systems to add_systems as a plain tuple, without         *)
(* .chain(), .before() or .after(): the schedule runs each of them once    *)
(* per frame, one at a time where they share a resource, in an order it    *)
(* is free to choose.  Commands are deferred to the end of the schedule.   *)
(*                                                                         *)
(* Strings are sequences of character codes ("A" is <<65>>), so that       *)
(* to_lowercase and the byte-wise String comparison are computed.          *)
(* A path is the sequence of its components below the root.                *)
(* Indices are 0-based as in the source; entries.get(i) is entries[i + 1]. *)
(***************************************************************************)
EXTENDS Integers, Sequences, FiniteSets, TLC

\* At most this many keys are newly pressed in one frame.
MaxPressed == 1

\* ITEM_SPACING, as an integer (it only multiplies integers here).
ITEM_SPACING == 2

VARIABLES current_dir, vim_mode, camera_state, file_entities, file_labels,
          materials, commands, ran

vars == <<current_dir, vim_mode, camera_state, file_entities, file_labels,
          materials, commands, ran>>

-----------------------------------------------------------------------------
(* Strings and paths *)

DotDot == <<46, 46>>

\* char::to_lowercase on the ASCII range
LowerChar(c) == IF c \in 65..90 THEN c + 32 ELSE c

\* str::to_lowercase
to_lowercase(s) == [i \in 1..Len(s) |-> LowerChar(s[i])]

\* String's Ord: lexicographic on the bytes, a proper prefix is smaller
RECURSIVE StrCmp(_, _)
StrCmp(a, b) ==
    IF a = <<>> /\ b = <<>> THEN "Equal"
    ELSE IF a = <<>> THEN "Less"
    ELSE IF b = <<>> THEN "Greater"
    ELSE IF Head(a) < Head(b) THEN "Less"
    ELSE IF Head(a) > Head(b) THEN "Greater"
    ELSE StrCmp(Tail(a), Tail(b))

None == [some |-> FALSE]
Some(v) == [some |-> TRUE, val |-> v]

\* Path::parent: None at the root, else the path without its last component
parent(p) == IF p = <<>> THEN None ELSE Some(SubSeq(p, 1, Len(p) - 1))

\* Path::join with one component
join(p, name) == Append(p, name)

\* slice::get
Get(s, i) == IF i + 1 \in 1..Len(s) THEN Some(s[i + 1]) ELSE None

Min(a, b) == IF a < b THEN a ELSE b

\* usize::saturating_sub
saturating_sub(a, b) == IF a > b THEN a - b ELSE 0

-----------------------------------------------------------------------------
(* The file system the program reads.  Each directory maps to the set of   *)
(* its children: name, whether it is a directory, the length its metadata  *)
(* reports, and whether its metadata can be read at all.                   *)

Child(name, isDir, len, metaOk) ==
    [name |-> name, is_dir |-> isDir, len |-> len, meta_ok |-> metaOk]

P_b == << <<98>> >>
P_D == << <<68>> >>
P_bA == << <<98>>, <<65>> >>
P_Dm == << <<68>>, <<45>> >>
P_Dmz == << <<68>>, <<45>>, <<122>> >>

\* /        b/   D/   c (file)
\* /b       A/   b.txt   .hidden
\* /b/A     (empty)
\* /D       -/   a   A
\* /D/-     z/ (metadata unreadable)
\* /D/-/z   (empty)
FsChildren(p) ==
    CASE p = <<>> -> { Child(<<98>>, TRUE, 64, TRUE),
                       Child(<<68>>, TRUE, 64, TRUE),
                       Child(<<99>>, FALSE, 7, TRUE) }
      [] p = P_b  -> { Child(<<65>>, TRUE, 64, TRUE),
                       Child(<<98, 46, 116, 120, 116>>, FALSE, 5, TRUE),
                       Child(<<46, 104, 105, 100, 100, 101, 110>>, FALSE, 3, TRUE) }
      [] p = P_D  -> { Child(<<45>>, TRUE, 64, TRUE),
                       Child(<<97>>, FALSE, 1, TRUE),
                       Child(<<65>>, FALSE, 2, TRUE) }
      [] p = P_Dm -> { Child(<<122>>, TRUE, 64, FALSE) }
      [] OTHER    -> {}

Dirs == { <<>>, P_b, P_D, P_bA, P_Dm, P_Dmz }

\* The orders in which read_dir may yield the children of p
Enumerations(p) ==
    LET S == FsChildren(p)
        n == Cardinality(S)
    IN  { f \in [1..n -> S] : \A i, j \in 1..n : i # j => f[i] # f[j] }

\* std::fs::read_dir: an error (any directory may be unreadable or gone when
\* it is read), or the children in some order
ReadDirResults(p) ==
    { [ok |-> FALSE, items |-> <<>>] }
        \cup { [ok |-> TRUE, items |-> f] : f \in Enumerations(p) }

-----------------------------------------------------------------------------
(* load_directory *)

FileEntry(name, p, isDir, size) ==
    [name |-> name, path |-> p, is_dir |-> isDir, size |-> size]

\* MapEntry, had it taken type and length without looking at the metadata result
MapEntry_TrustsDirEntry(p, c) ==
    FileEntry(c.name, join(p, c.name), c.is_dir, c.len)

\* the closure of the .map(): one FileEntry per DirEntry
MapEntry(p, c) ==
    FileEntry(c.name, join(p, c.name),
              IF c.meta_ok THEN c.is_dir ELSE FALSE,
              IF c.meta_ok THEN c.len ELSE 0)

\* Compare, had it compared the kinds only
Compare_KindOnly(a, b) ==
    IF a.is_dir /\ ~b.is_dir THEN "Less"
    ELSE IF ~a.is_dir /\ b.is_dir THEN "Greater"
    ELSE "Equal"

\* Compare, had it compared the names as they are
Compare_CaseSensitive(a, b) ==
    IF a.is_dir /\ ~b.is_dir THEN "Less"
    ELSE IF ~a.is_dir /\ b.is_dir THEN "Greater"
    ELSE StrCmp(a.name, b.name)

\* the comparator of sort_by
Compare(a, b) ==
    IF a.is_dir /\ ~b.is_dir THEN "Less"
    ELSE IF ~a.is_dir /\ b.is_dir THEN "Greater"
    ELSE StrCmp(to_lowercase(a.name), to_lowercase(b.name))

\* e placed into the sorted s behind every element that is not greater
RECURSIVE InsertSorted(_, _)
InsertSorted(e, s) ==
    IF s = <<>> THEN <<e>>
    ELSE IF Compare(e, Head(s)) = "Less" THEN <<e>> \o s
    ELSE <<Head(s)>> \o InsertSorted(e, Tail(s))

\* SortBy, had it left the rows in the order read_dir gave them
SortBy_Unsorted(s) == s

\* slice::sort_by, a stable sort
RECURSIVE SortBy(_)
SortBy(s) ==
    IF s = <<>> THEN <<>>
    ELSE InsertSorted(s[Len(s)], SortBy(SubSeq(s, 1, Len(s) - 1)))

\* the synthetic parent row, if the path has a parent
ParentRow(p) ==
    IF parent(p).some /\ parent(p).val # p
    THEN << FileEntry(DotDot, parent(p).val, TRUE, 0) >>
    ELSE <<>>

\* Listing, had it sorted the parent row along with the rest
Listing_SortsParentRow(p, rd) ==
    IF rd.ok
    THEN SortBy(ParentRow(p) \o [i \in 1..Len(rd.items) |-> MapEntry(p, rd.items[i])])
    ELSE ParentRow(p)

\* the entries load_directory builds from one result of read_dir
Listing(p, rd) ==
    ParentRow(p) \o
        (IF rd.ok
         THEN SortBy([i \in 1..Len(rd.items) |-> MapEntry(p, rd.items[i])])
         ELSE <<>>)

\* LoadedDirectory, had it extended the old entries instead of replacing them
LoadedDirectory_KeepsOld(cd, rd) ==
    [path |-> cd.path, entries |-> cd.entries \o Listing(cd.path, rd),
     selected_index |-> 0, needs_reload |-> FALSE]

\* LoadedDirectory, had it left the flag set
LoadedDirectory_KeepsFlag(cd, rd) ==
    [path |-> cd.path, entries |-> Listing(cd.path, rd),
     selected_index |-> 0, needs_reload |-> TRUE]

\* what load_directory assigns when it reloads
LoadedDirectory(cd, rd) ==
    [path |-> cd.path, entries |-> Listing(cd.path, rd),
     selected_index |-> 0, needs_reload |-> FALSE]

\* LoadResult, had it lacked the early return
LoadResult_Always(cd, rd) == LoadedDirectory(cd, rd)

\* CurrentDirectory after load_directory, rd being what read_dir would return
LoadResult(cd, rd) ==
    IF ~cd.needs_reload THEN cd ELSE LoadedDirectory(cd, rd)

LoadStep(cd) ==
    /\ "load_directory" \notin ran
    /\ ran' = ran \cup {"load_directory"}
    /\ current_dir' = cd
    /\ UNCHANGED <<vim_mode, camera_state, file_entities, file_labels, materials,
                   commands>>

\* load_directory when read_dir returns rd
LoadDirectoryOn(rd) == LoadStep(LoadResult(current_dir, rd))

load_directory ==
    /\ "load_directory" \notin ran
    /\ \E cd \in { LoadResult(current_dir, rd) :
                     rd \in ReadDirResults(current_dir.path) } :
          LoadStep(cd)

-----------------------------------------------------------------------------
(* handle_keyboard *)

KeyCodes == { "KeyJ", "ArrowDown", "KeyK", "ArrowUp", "KeyL", "ArrowRight",
              "Enter", "KeyH", "ArrowLeft", "KeyG", "KeyV", "Escape" }

\* the sets of at most n key codes
RECURSIVE KeySets(_)
KeySets(n) ==
    IF n = 0 THEN { {} }
    ELSE KeySets(n - 1) \cup { s \cup {k} : s \in KeySets(n - 1), k \in KeyCodes }

\* ButtonInput<KeyCode> as one frame sees it: the keys newly pressed in the
\* frame, and whether ShiftLeft is held
KeyboardInputs == [ just_pressed : KeySets(MaxPressed), shift : BOOLEAN ]

\* the target update_camera_target computes: Vec3::new(x, 0.0, z)
GridTarget(i) == << (i % 10) * ITEM_SPACING - 9, 0, (i \div 10) * ITEM_SPACING >>

update_camera_target(cd, cam) ==
    [cam EXCEPT !.target = GridTarget(cd.selected_index)]

\* The record the handler works on: the three resources it may write.
Res(cd, cam, mode) == [cd |-> cd, cam |-> cam, mode |-> mode]

\* selected_index := i, then update_camera_target
Select(r, i) ==
    LET cd == [r.cd EXCEPT !.selected_index = i]
    IN  [r EXCEPT !.cd = cd, !.cam = update_camera_target(cd, r.cam)]

\* KeyNext, had it wrapped around at the end
KeyNext_Wrap(r, kb, entry_count) ==
    IF "KeyJ" \in kb.just_pressed \/ "ArrowDown" \in kb.just_pressed
    THEN Select(r, (r.cd.selected_index + 1) % entry_count)
    ELSE r

\* j or Down
KeyNext(r, kb, entry_count) ==
    IF "KeyJ" \in kb.just_pressed \/ "ArrowDown" \in kb.just_pressed
    THEN Select(r, Min(r.cd.selected_index + 1, entry_count - 1))
    ELSE r

\* k or Up
KeyPrev(r, kb) ==
    IF "KeyK" \in kb.just_pressed \/ "ArrowUp" \in kb.just_pressed
    THEN Select(r, saturating_sub(r.cd.selected_index, 1))
    ELSE r

\* KeyOpen, had it forgotten to ask for the reload
KeyOpen_NoReload(r, kb) ==
    LET entry == Get(r.cd.entries, r.cd.selected_index)
    IN  IF /\ \/ "KeyL" \in kb.just_pressed
              \/ "ArrowRight" \in kb.just_pressed
              \/ "Enter" \in kb.just_pressed
           /\ entry.some
           /\ entry.val.is_dir
        THEN [r EXCEPT !.cd.path = entry.val.path]
        ELSE r

\* KeyOpen, had it not asked whether the entry is a directory
KeyOpen_AnyEntry(r, kb) ==
    LET entry == Get(r.cd.entries, r.cd.selected_index)
    IN  IF /\ \/ "KeyL" \in kb.just_pressed
              \/ "ArrowRight" \in kb.just_pressed
              \/ "Enter" \in kb.just_pressed
           /\ entry.some
        THEN [r EXCEPT !.cd.path = entry.val.path, !.cd.needs_reload = TRUE]
        ELSE r

\* l or Right or Enter
KeyOpen(r, kb) ==
    LET entry == Get(r.cd.entries, r.cd.selected_index)
    IN  IF /\ \/ "KeyL" \in kb.just_pressed
              \/ "ArrowRight" \in kb.just_pressed
              \/ "Enter" \in kb.just_pressed
           /\ entry.some
           /\ entry.val.is_dir
        THEN [r EXCEPT !.cd.path = entry.val.path, !.cd.needs_reload = TRUE]
        ELSE r

\* KeyBack, had it forgotten to ask for the reload
KeyBack_NoReload(r, kb) ==
    LET par == parent(r.cd.path)
    IN  IF /\ "KeyH" \in kb.just_pressed \/ "ArrowLeft" \in kb.just_pressed
           /\ par.some
           /\ par.val # r.cd.path
        THEN [r EXCEPT !.cd.path = par.val]
        ELSE r

\* h or Left
KeyBack(r, kb) ==
    LET par == parent(r.cd.path)
    IN  IF /\ "KeyH" \in kb.just_pressed \/ "ArrowLeft" \in kb.just_pressed
           /\ par.some
           /\ par.val # r.cd.path
        THEN [r EXCEPT !.cd.path = par.val, !.cd.needs_reload = TRUE]
        ELSE r

\* g
KeyTop(r, kb) ==
    IF "KeyG" \in kb.just_pressed /\ ~kb.shift THEN Select(r, 0) ELSE r

\* G
KeyBottom(r, kb, entry_count) ==
    IF kb.shift /\ "KeyG" \in kb.just_pressed
    THEN Select(r, entry_count - 1)
    ELSE r

\* v
KeyVisual(r, kb) ==
    IF "KeyV" \in kb.just_pressed THEN [r EXCEPT !.mode = "Visual"] ELSE r

\* the VimMode::Normal arm: the seven ifs, in order
NormalArm(r, kb, entry_count) ==
    KeyVisual(
      KeyBottom(
        KeyTop(
          KeyBack(
            KeyOpen(
              KeyPrev(
                KeyNext(r, kb, entry_count), kb), kb), kb), kb),
        kb, entry_count), kb)

\* VisualArm, had it left the mode on any key
VisualArm_AnyKey(r, kb) ==
    IF kb.just_pressed # {} THEN [r EXCEPT !.mode = "Normal"] ELSE r

\* the VimMode::Visual | VimMode::Command arm
VisualArm(r, kb) ==
    IF "Escape" \in kb.just_pressed THEN [r EXCEPT !.mode = "Normal"] ELSE r

\* Handled, without the early return on an empty listing
Handled_NoEarlyReturn(r, kb) ==
    IF r.mode = "Normal" THEN NormalArm(r, kb, Len(r.cd.entries))
    ELSE VisualArm(r, kb)

\* the resources after handle_keyboard has run on input kb
Handled(r, kb) ==
    LET entry_count == Len(r.cd.entries)
    IN  IF entry_count = 0 THEN r
        ELSE IF r.mode = "Normal" THEN NormalArm(r, kb, entry_count)
        ELSE VisualArm(r, kb)

KeyboardStep(r) ==
    /\ "handle_keyboard" \notin ran
    /\ ran' = ran \cup {"handle_keyboard"}
    /\ current_dir' = r.cd
    /\ camera_state' = r.cam
    /\ vim_mode' = r.mode
    /\ UNCHANGED <<file_entities, file_labels, materials, commands>>

\* handle_keyboard when the frame's input is kb
HandleKeyboardOn(kb) ==
    KeyboardStep(Handled(Res(current_dir, camera_state, vim_mode), kb))

handle_keyboard ==
    /\ "handle_keyboard" \notin ran
    /\ \E r \in { Handled(Res(current_dir, camera_state, vim_mode), kb) :
                    kb \in KeyboardInputs } :
          KeyboardStep(r)

-----------------------------------------------------------------------------
(* spawn_file_entities and despawn_file_entities.  Commands are deferred:   *)
(* a system only queues them, and they are applied when the schedule has   *)
(* run all its systems.                                                    *)

NoCommands == [despawn |-> FALSE, spawn_entities |-> <<>>, spawn_labels |-> <<>>]

FELIPE_ORANGE == "FELIPE_ORANGE"
FELIPE_ORANGE_DIM == "FELIPE_ORANGE_DIM"
FELIPE_GRID == "FELIPE_GRID"

\* the three handles that one run of spawn_file_entities creates
MaterialHandles == {"material_normal", "material_selected", "material_dir"}

\* Assets<StandardMaterial> before the first spawn: no asset behind a handle
NoMaterials == [h \in MaterialHandles |-> "None"]

\* the base_color of the three materials that spawn_file_entities adds
AddedMaterials ==
    [h \in MaterialHandles |->
        CASE h = "material_normal"   -> FELIPE_ORANGE_DIM
          [] h = "material_selected" -> FELIPE_ORANGE
          [] h = "material_dir"      -> FELIPE_GRID]

\* the handle that the loop clones for the block of entry i
BlockMaterial(cd, i) ==
    IF i = cd.selected_index THEN "material_selected"
    ELSE IF cd.entries[i + 1].is_dir THEN "material_dir"
    ELSE "material_normal"

\* the FileEntity components of the loop with the material handle of their
\* bundles, in spawn order
SpawnedEntities(cd) ==
    [k \in 1..Len(cd.entries) |->
        [index |-> k - 1, material |-> BlockMaterial(cd, k - 1)]]

\* the FileLabel components of the loop with the text of their bundles, in
\* spawn order
SpawnedLabels(cd) ==
    [k \in 1..Len(cd.entries) |-> [index |-> k - 1, text |-> cd.entries[k].name]]

\* AlreadyPopulated, had it looked at the entries only
AlreadyPopulated_OnlyEntries ==
    current_dir.entries = <<>>

\* the early return of spawn_file_entities
AlreadyPopulated ==
    \/ file_entities # <<>>
    \/ file_labels # <<>>
    \/ current_dir.entries = <<>>

spawn_file_entities ==
    /\ "spawn_file_entities" \notin ran
    /\ ran' = ran \cup {"spawn_file_entities"}
    /\ IF AlreadyPopulated
       THEN UNCHANGED <<commands, materials>>
       ELSE /\ materials' = AddedMaterials
            /\ commands' = [commands EXCEPT
                               !.spawn_entities = SpawnedEntities(current_dir),
                               !.spawn_labels = SpawnedLabels(current_dir)]
    /\ UNCHANGED <<current_dir, vim_mode, camera_state, file_entities, file_labels>>

\* whether despawn_file_entities despawns
TearsDown(cd) == cd.needs_reload

despawn_file_entities ==
    /\ "despawn_file_entities" \notin ran
    /\ ran' = ran \cup {"despawn_file_entities"}
    /\ IF TearsDown(current_dir)
       THEN commands' = [commands EXCEPT !.despawn = TRUE]
       ELSE commands' = commands
    /\ UNCHANGED <<current_dir, vim_mode, camera_state, file_entities, file_labels,
                   materials>>

-----------------------------------------------------------------------------
(* update_file_materials.  It writes through each block's handle, and the  *)
(* blocks hold clones of the three handles of their spawn.                  *)

\* the colour one iteration of the loop chooses for the block with this index
RefreshColor(cd, index) ==
    LET entry  == Get(cd.entries, index)
        is_dir == IF entry.some THEN entry.val.is_dir ELSE FALSE
    IN  IF index = cd.selected_index THEN FELIPE_ORANGE
        ELSE IF is_dir THEN FELIPE_GRID
        ELSE FELIPE_ORANGE_DIM

\* the assets after the loop has gone over the blocks in this order
RECURSIVE Refreshed(_, _, _)
Refreshed(mats, blocks, cd) ==
    IF blocks = <<>> THEN mats
    ELSE IF mats[Head(blocks).material] = "None"
    THEN Refreshed(mats, Tail(blocks), cd)
    ELSE Refreshed([mats EXCEPT ![Head(blocks).material] =
                                    RefreshColor(cd, Head(blocks).index)],
                   Tail(blocks), cd)

\* Query::iter promises no order: the orders in which the loop may visit
\* the blocks of the world
IterationOrders(world) ==
    LET n == Len(world)
    IN  { [k \in 1..n |-> world[f[k]]] :
            f \in { g \in [1..n -> 1..n] :
                      \A i, j \in 1..n : i # j => g[i] # g[j] } }

update_file_materials ==
    /\ "update_file_materials" \notin ran
    /\ ran' = ran \cup {"update_file_materials"}
    /\ \E mats \in { Refreshed(materials, blocks, current_dir) :
                       blocks \in IterationOrders(file_entities) } :
          materials' = mats
    /\ UNCHANGED <<current_dir, vim_mode, camera_state, file_entities, file_labels,
                   commands>>

-----------------------------------------------------------------------------
(* The Update schedule of main: every system runs once per frame; the      *)
(* tuple given to add_systems is not chained, so the schedule does not     *)
(* order the systems.  The queued commands are applied at its end.         *)

Systems == { "load_directory", "despawn_file_entities", "spawn_file_entities",
             "handle_keyboard" }

\* the world after the command buffers have been applied
Applied(world, cmds) ==
    (IF cmds.despawn THEN <<>> ELSE world.entities) \o cmds.spawn_entities

AppliedLabels(world, cmds) ==
    (IF cmds.despawn THEN <<>> ELSE world.labels) \o cmds.spawn_labels

\* the tuple main gives to add_systems, in the order it is written
RegisteredOrder ==
    << "load_directory", "despawn_file_entities", "spawn_file_entities",
       "handle_keyboard", "handle_mouse_wheel", "update_camera",
       "update_file_materials", "update_file_labels", "update_ui", "draw_grid" >>

\* the systems SpecRender schedules
RenderSystems == Systems \cup {"update_file_materials"}

\* the end of a frame of the systems S
EndFrameOf(S) ==
    /\ ran = S
    /\ ran' = {}
    /\ file_entities' = Applied([entities |-> file_entities], commands)
    /\ file_labels' = AppliedLabels([labels |-> file_labels], commands)
    /\ commands' = NoCommands
    /\ UNCHANGED <<current_dir, vim_mode, camera_state, materials>>

EndFrame == EndFrameOf(Systems)

EndFrameRender == EndFrameOf(RenderSystems)

\* CurrentDirectory::default (the process may be started in any directory),
\* VimMode::default, CameraState::default
Init ==
    /\ current_dir \in [path : Dirs, entries : {<<>>}, selected_index : {0},
                        needs_reload : {TRUE}]
    /\ vim_mode = "Normal"
    /\ camera_state = [target |-> <<0, 0, 0>>, distance |-> 30]
    /\ file_entities = <<>>
    /\ file_labels = <<>>
    /\ materials = NoMaterials
    /\ commands = NoCommands
    /\ ran = {}

Next ==
    \/ load_directory
    \/ despawn_file_entities
    \/ spawn_file_entities
    \/ handle_keyboard
    \/ EndFrame

Spec == Init /\ [][Next]_vars

NextRender ==
    \/ load_directory
    \/ despawn_file_entities
    \/ spawn_file_entities
    \/ handle_keyboard
    \/ update_file_materials
    \/ EndFrameRender

SpecRender == Init /\ [][NextRender]_vars

-----------------------------------------------------------------------------
(* Vocabulary of the properties *)

EntryCount == Len(current_dir.entries)

NextKeys == {"KeyJ", "ArrowDown"}
PrevKeys == {"KeyK", "ArrowUp"}
OpenKeys == {"KeyL", "ArrowRight", "Enter"}
BackKeys == {"KeyH", "ArrowLeft"}

\* the frame's key presses are presses of the keys K and of nothing else
Only(kb, K) == kb.just_pressed # {} /\ kb.just_pressed \subseteq K

Names(es) == [k \in 1..Len(es) |-> es[k].name]

\* the path without its last component
Dirname(p) == SubSeq(p, 1, Len(p) - 1)

\* the row that stands for the parent of p
SyntheticRow(p) == [name |-> DotDot, path |-> Dirname(p), is_dir |-> TRUE, size |-> 0]

-----------------------------------------------------------------------------
\* C1: whenever entries is non-empty, 0 <= selected_index <= len(entries) - 1,
\* in the initial state and after every step; a press of next at the last
\* index and a press of prev at index 0 leave selected_index where it is.
SelectedInRange ==
    current_dir.entries # <<>> =>
        current_dir.selected_index \in 0..(Len(current_dir.entries) - 1)

C1_SelectedIndexClamped ==
    /\ SelectedInRange
    /\ [][ /\ SelectedInRange'
           /\ \A kb \in KeyboardInputs :
                HandleKeyboardOn(kb) =>
                  /\ (Only(kb, NextKeys) /\ current_dir.selected_index = EntryCount - 1)
                        => current_dir'.selected_index = current_dir.selected_index
                  /\ (Only(kb, PrevKeys) /\ current_dir.selected_index = 0)
                        => current_dir'.selected_index = 0 ]_vars

\* the selection has been moved to the last of at least three entries
C1_Witness ==
    /\ "handle_keyboard" \in ran
    /\ EntryCount >= 3
    /\ current_dir.selected_index = EntryCount - 1
    /\ camera_state.target = GridTarget(EntryCount - 1)

-----------------------------------------------------------------------------
\* C2: the entries other than the synthetic ".." row have every directory
\* before every non-directory and, within each group, names non-decreasing
\* under case-insensitive comparison; /b (folder A, files b.txt and .hidden)
\* loads as "..", "A", ".hidden", "b.txt".
RealEntries ==
    IF current_dir.entries # <<>> /\ current_dir.entries[1].name = DotDot
    THEN Tail(current_dir.entries)
    ELSE current_dir.entries

ExampleNames ==
    << DotDot, <<65>>, <<46, 104, 105, 100, 100, 101, 110>>, <<98, 46, 116, 120, 116>> >>

C2_DirectoriesFirstThenNames ==
    /\ \A i, j \in 1..Len(RealEntries) :
          i < j =>
            /\ RealEntries[j].is_dir => RealEntries[i].is_dir
            /\ RealEntries[i].is_dir = RealEntries[j].is_dir =>
                  StrCmp(to_lowercase(RealEntries[i].name),
                         to_lowercase(RealEntries[j].name)) # "Greater"
    /\ (current_dir.path = P_b /\ ~current_dir.needs_reload /\ EntryCount = 4)
          => Names(current_dir.entries) = ExampleNames

\* /b has been loaded, and read in full
C2_Witness ==
    /\ current_dir.path = P_b
    /\ ~current_dir.needs_reload
    /\ Names(current_dir.entries) = ExampleNames

-----------------------------------------------------------------------------
\* C3: after every load, when the path has a parent the first entry is named
\* "..", is a directory and has the parent as its path, whatever the names of
\* the real entries; when it has none, no entry is named "..".
ParentRowFirst(cd) ==
    IF cd.path # <<>>
    THEN /\ cd.entries # <<>>
         /\ cd.entries[1].name = DotDot
         /\ cd.entries[1].is_dir
         /\ cd.entries[1].path = Dirname(cd.path)
    ELSE \A k \in 1..Len(cd.entries) : cd.entries[k].name # DotDot

C3_ParentRowFirst ==
    [][ (load_directory /\ current_dir.needs_reload) => ParentRowFirst(current_dir') ]_vars

\* /D has been loaded: its directory "-" sorts before ".." and yet comes second
C3_Witness ==
    /\ "load_directory" \in ran
    /\ current_dir.path = P_D
    /\ ~current_dir.needs_reload
    /\ EntryCount = 4
    /\ current_dir.entries[1] = SyntheticRow(P_D)
    /\ current_dir.entries[2].name = <<45>>

-----------------------------------------------------------------------------
\* C4: in Normal mode a press of open on a selected directory sets path to the
\* entry's path and sets needs_reload; on a selected entry that is not a
\* directory it leaves path, entries, selected_index and needs_reload as
\* they are.
C4_OpenDirectoryOrNothing ==
    [][ \A kb \in KeyboardInputs :
          ( /\ Only(kb, OpenKeys)
            /\ vim_mode = "Normal"
            /\ EntryCount > 0
            /\ HandleKeyboardOn(kb) )
          => LET entry == current_dir.entries[current_dir.selected_index + 1]
             IN  IF entry.is_dir
                 THEN /\ current_dir'.path = entry.path
                      /\ current_dir'.needs_reload
                      /\ current_dir'.entries = current_dir.entries
                      /\ current_dir'.selected_index = current_dir.selected_index
                 ELSE current_dir' = current_dir ]_vars

\* a real directory of the listing has just been opened
C4_Witness ==
    /\ "handle_keyboard" \in ran
    /\ current_dir.needs_reload
    /\ EntryCount > 0
    /\ LET entry == current_dir.entries[current_dir.selected_index + 1]
       IN  /\ entry.is_dir
           /\ entry.name # DotDot
           /\ current_dir.path = entry.path

-----------------------------------------------------------------------------
\* C5 as stated: a press of back from any path that has a parent sets path to
\* the parent and sets needs_reload; at the root it leaves path and
\* needs_reload as they are.
BackEffect ==
    IF current_dir.path # <<>>
    THEN /\ current_dir'.path = Dirname(current_dir.path)
         /\ current_dir'.needs_reload
    ELSE /\ current_dir'.path = current_dir.path
         /\ current_dir'.needs_reload = current_dir.needs_reload

C5_BackFromAnyPath ==
    [][ \A kb \in KeyboardInputs :
          (Only(kb, BackKeys) /\ HandleKeyboardOn(kb)) => BackEffect ]_vars

\* C5 amended: in Normal mode and with a non-empty listing, a press of back
\* from a path that has a parent sets path to the parent and sets
\* needs_reload; at the root it leaves path and needs_reload as they are.
C5_BackInNormalMode ==
    [][ \A kb \in KeyboardInputs :
          ( /\ Only(kb, BackKeys)
            /\ vim_mode = "Normal"
            /\ EntryCount > 0
            /\ HandleKeyboardOn(kb) )
          => BackEffect ]_vars

\* back has been pressed in /b with a file selected: the path is the root,
\* the listing is still that of /b
C5_Witness ==
    /\ "handle_keyboard" \in ran
    /\ current_dir.needs_reload
    /\ current_dir.path = <<>>
    /\ Names(current_dir.entries) = ExampleNames
    /\ current_dir.selected_index = 2

-----------------------------------------------------------------------------
\* C6: the blocks and labels of the old entry set are torn down before the
\* populator runs for the new one: at the end of a frame in which no reload is
\* pending, the blocks and labels that exist correspond one-to-one, by index
\* and by name, to the entries, or their teardown has been queued.
VisualsMatchEntries ==
    /\ Len(file_entities) = EntryCount
    /\ Len(file_labels) = EntryCount
    /\ \A k \in 1..EntryCount :
          /\ file_entities[k].index = k - 1
          /\ file_labels[k].index = k - 1
          /\ file_labels[k].text = current_dir.entries[k].name

C6_VisualsRebuiltOnReload ==
    ( /\ ran = Systems
      /\ ~current_dir.needs_reload
      /\ (file_entities # <<>> \/ file_labels # <<>>) )
    => (VisualsMatchEntries \/ commands.despawn)

-----------------------------------------------------------------------------
\* C7: when the loader runs with needs_reload set, it leaves needs_reload
\* false and selected_index 0, and entries is the listing of the path and
\* nothing else: the ".." row of the path first if it has a parent, then
\* children of the path, each listed once.
FreshListing(es, p) ==
    /\ \A k \in 1..Len(es) :
          \/ k = 1 /\ p # <<>> /\ es[k] = SyntheticRow(p)
          \/ /\ es[k].path = Append(p, es[k].name)
             /\ \E c \in FsChildren(p) : c.name = es[k].name
    /\ \A i, j \in 1..Len(es) : i # j => es[i].name # es[j].name

C7_ReloadReplacesEntries ==
    [][ (load_directory /\ current_dir.needs_reload) =>
          /\ ~current_dir'.needs_reload
          /\ current_dir'.selected_index = 0
          /\ current_dir'.path = current_dir.path
          /\ FreshListing(current_dir'.entries, current_dir.path) ]_vars

\* the loader has reloaded in this frame (the teardown still saw the flag, the
\* input handler has not run yet) while labels of a previous listing exist
C7_Witness ==
    /\ {"despawn_file_entities", "load_directory"} \subseteq ran
    /\ "handle_keyboard" \notin ran
    /\ commands.despawn
    /\ ~current_dir.needs_reload
    /\ current_dir.selected_index = 0
    /\ \E k \in 1..Len(file_labels) :
          \A i \in 1..EntryCount : current_dir.entries[i].name # file_labels[k].text

-----------------------------------------------------------------------------
\* C8: when the loader runs with needs_reload false, it leaves path, entries,
\* selected_index and needs_reload as they are.
C8_NoReloadNoChange ==
    [][ (load_directory /\ ~current_dir.needs_reload) => current_dir' = current_dir ]_vars

\* the loader has run in this frame, before the input handler, and the
\* selection is still away from 0
C8_Witness ==
    /\ "load_directory" \in ran
    /\ "handle_keyboard" \notin ran
    /\ ~current_dir.needs_reload
    /\ current_dir.selected_index > 0

-----------------------------------------------------------------------------
\* C9: when read_dir fails, the loader leaves entries the single ".." row if
\* the path has a parent and empty otherwise, selected_index 0 and
\* needs_reload false; when it succeeds, a child whose metadata cannot be read
\* is listed with is_dir false and size 0.
C9_FailuresAbsorbed ==
    [][ \A rd \in ReadDirResults(current_dir.path) :
          (current_dir.needs_reload /\ LoadDirectoryOn(rd)) =>
            /\ ~rd.ok =>
                 /\ current_dir'.entries =
                       (IF current_dir.path # <<>>
                        THEN << SyntheticRow(current_dir.path) >> ELSE <<>>)
                 /\ current_dir'.selected_index = 0
                 /\ ~current_dir'.needs_reload
            /\ rd.ok =>
                 \A c \in FsChildren(current_dir.path) :
                    ~c.meta_ok =>
                       \E k \in 1..Len(current_dir'.entries) :
                          /\ current_dir'.entries[k].name = c.name
                          /\ ~current_dir'.entries[k].is_dir
                          /\ current_dir'.entries[k].size = 0 ]_vars

\* /b, which has three children, has been loaded as the parent row alone
C9_Witness ==
    /\ "load_directory" \in ran
    /\ current_dir.path = P_b
    /\ ~current_dir.needs_reload
    /\ current_dir.selected_index = 0
    /\ current_dir.entries = << SyntheticRow(P_b) >>

-----------------------------------------------------------------------------
\* C10: in every reachable state whose mode is Visual or Command, a press of
\* cancel sets the mode to Normal in that frame.
C10_CancelReturnsToNormal ==
    [][ \A kb \in KeyboardInputs :
          ( /\ "Escape" \in kb.just_pressed
            /\ vim_mode \in {"Visual", "Command"}
            /\ HandleKeyboardOn(kb) )
          => vim_mode' = "Normal" ]_vars

-----------------------------------------------------------------------------
\* C11: while the mode is Visual or Command, a frame whose key presses do not
\* include cancel leaves path, entries, selected_index, needs_reload, the
\* mode and the camera as they are.
C11_VisualModeIgnoresOtherKeys ==
    [][ \A kb \in KeyboardInputs :
          ( /\ "Escape" \notin kb.just_pressed
            /\ vim_mode \in {"Visual", "Command"}
            /\ HandleKeyboardOn(kb) )
          => /\ current_dir' = current_dir
             /\ vim_mode' = vim_mode
             /\ camera_state' = camera_state ]_vars

\* the handler has run and the mode is Visual, over a listing with a
\* selection away from the top
C11_Witness ==
    /\ "handle_keyboard" \in ran
    /\ vim_mode = "Visual"
    /\ EntryCount >= 2
    /\ current_dir.selected_index > 0

-----------------------------------------------------------------------------
\* C12: in every reachable state whose mode is Normal, a press of the visual
\* key sets the mode to Visual.
C12_VisualKeyEntersVisual ==
    [][ \A kb \in KeyboardInputs :
          ( /\ "KeyV" \in kb.just_pressed
            /\ vim_mode = "Normal"
            /\ HandleKeyboardOn(kb) )
          => vim_mode' = "Visual" ]_vars

-----------------------------------------------------------------------------
\* C13 as stated: a reload is completed within the frame in which it was
\* requested, so needs_reload is never true at the end of a frame.
C13_NoReloadPendingAtFrameEnd ==
    ran = Systems => ~current_dir.needs_reload

\* C13 amended: a reload request never survives a run of the loader: once the
\* loader has run in a frame, needs_reload is true only if the input handler
\* has run in that frame too (and set it after the loader), and the loader of
\* the next frame completes that reload.
C13_ReloadServedByNextLoaderRun ==
    (current_dir.needs_reload /\ "load_directory" \in ran)
        => "handle_keyboard" \in ran

\* a frame ends with a reload pending: the handler asked for it after the
\* loader had run
C13_Witness ==
    /\ ran = Systems
    /\ current_dir.needs_reload
    /\ EntryCount > 0
    /\ vim_mode = "Normal"

-----------------------------------------------------------------------------
\* C16: whenever there is a selected entry, the camera target is the grid
\* position of that entry, x = (selected_index mod 10) * 2 - 9, y = 0 and
\* z = (selected_index div 10) * 2.
C16_CameraTargetsSelection ==
    EntryCount > 0 =>
        camera_state.target =
            << (current_dir.selected_index % 10) * 2 - 9, 0,
               (current_dir.selected_index \div 10) * 2 >>

-----------------------------------------------------------------------------
\* a before b is allowed by "directories first, then names ascending without
\* regard to case"
InListingOrder(a, b) ==
    \/ a.is_dir /\ ~b.is_dir
    \/ /\ a.is_dir = b.is_dir
       /\ StrCmp(to_lowercase(a.name), to_lowercase(b.name)) # "Greater"

\* C17 as stated: after a reload every adjacent pair of entries, the pair of
\* ".." and the entry after it included, is in listing order.
C17_WholeListSorted ==
    [][ (load_directory /\ current_dir.needs_reload) =>
          \A k \in 1..(Len(current_dir'.entries) - 1) :
              InListingOrder(current_dir'.entries[k],
                             current_dir'.entries[k + 1]) ]_vars

\* C17 amended: after a reload of a path with a parent the first entry is
\* "..", and every adjacent pair of the entries that follow the synthetic row
\* is in listing order; the pair of ".." and the entry after it need not be.
C17_RealEntriesSorted ==
    [][ (load_directory /\ current_dir.needs_reload) =>
          LET es    == current_dir'.entries
              first == IF current_dir.path # <<>> THEN 2 ELSE 1
          IN  /\ current_dir.path # <<>> =>
                    /\ es # <<>>
                    /\ es[1].name = DotDot
              /\ \A k \in first..(Len(es) - 1) :
                    InListingOrder(es[k], es[k + 1]) ]_vars

\* /D has been loaded in full: ".." is followed by "-", which sorts before it
C17_Witness ==
    /\ "load_directory" \in ran
    /\ ~current_dir.needs_reload
    /\ current_dir.path = P_D
    /\ Names(current_dir.entries) = << DotDot, <<45>>, <<97>>, <<65>> >>
    /\ ~InListingOrder(current_dir.entries[1], current_dir.entries[2])

-----------------------------------------------------------------------------
\* every index carries at most one element of the sequence
UniqueIndices(world) ==
    \A i, j \in 1..Len(world) : i # j => world[i].index # world[j].index

-----------------------------------------------------------------------------
\* C19: whenever needs_reload is false, entries is a listing the loader
\* produces for the current path.
C19_EntriesListCurrentPath ==
    ~current_dir.needs_reload =>
        \E rd \in ReadDirResults(current_dir.path) :
            current_dir.entries = Listing(current_dir.path, rd)

\* the handler has changed directory and the loader has followed: the
\* listing is that of the new path while the labels are those of the old one
C19_Witness ==
    /\ ~current_dir.needs_reload
    /\ "load_directory" \in ran
    /\ current_dir.path = P_bA
    /\ Names(current_dir.entries) = << DotDot >>
    /\ Len(file_labels) = 4

-----------------------------------------------------------------------------
\* C20: while entries is empty, no key press changes path, selected_index,
\* needs_reload, the mode or the camera target.
C20_InertOnEmptyListing ==
    [][ \A kb \in KeyboardInputs :
          (EntryCount = 0 /\ HandleKeyboardOn(kb))
          => /\ current_dir' = current_dir
             /\ vim_mode' = vim_mode
             /\ camera_state' = camera_state ]_vars

\* the handler has run over the empty listing of the root
C20_Witness ==
    /\ "handle_keyboard" \in ran
    /\ "load_directory" \notin ran
    /\ ~current_dir.needs_reload
    /\ current_dir.path = <<>>
    /\ EntryCount = 0

-----------------------------------------------------------------------------
\* C14: in every frame the update steps run in the one order in which they
\* are registered: whenever a step has run in the current frame, every step
\* registered before it has run in that frame too.
C14_RegisteredOrderKept ==
    \A i, j \in 1..Len(RegisteredOrder) :
        ( /\ i < j
          /\ RegisteredOrder[i] \in RenderSystems
          /\ RegisteredOrder[j] \in ran )
        => RegisteredOrder[i] \in ran

-----------------------------------------------------------------------------
\* C15: after the material refresh of a frame whose blocks are those of the
\* current entries, a block is displayed in the selected colour if and only
\* if its index is selected_index, and every other block is displayed in the
\* directory colour if its entry is a directory and in the file colour
\* otherwise.
C15_BlocksShowSelectionAndKind ==
    [][ ( /\ update_file_materials
          /\ VisualsMatchEntries
          /\ ~current_dir.needs_reload )
        => \A k \in 1..Len(file_entities) :
              LET block == file_entities[k]
                  shown == materials'[block.material]
              IN  /\ shown = FELIPE_ORANGE
                        <=> block.index = current_dir.selected_index
                  /\ block.index # current_dir.selected_index
                        => shown = IF current_dir.entries[block.index + 1].is_dir
                                   THEN FELIPE_GRID
                                   ELSE FELIPE_ORANGE_DIM ]_vars

-----------------------------------------------------------------------------
\* C21: in every Normal-mode state in which the handler can run with the
\* synthetic ".." row selected, a press of open leaves the same path and the
\* same needs_reload as a press of back does.
C21_OpenParentRowIsBack ==
    \A ko, kb \in KeyboardInputs :
        ( /\ Only(ko, OpenKeys)
          /\ Only(kb, BackKeys)
          /\ "handle_keyboard" \notin ran
          /\ vim_mode = "Normal"
          /\ EntryCount > 0
          /\ current_dir.selected_index = 0
          /\ current_dir.entries[1].name = DotDot )
        => LET r      == Res(current_dir, camera_state, vim_mode)
               opened == Handled(r, ko).cd
               backed == Handled(r, kb).cd
           IN  /\ opened.path = backed.path
               /\ opened.needs_reload = backed.needs_reload

-----------------------------------------------------------------------------
\* the results of read_dir that are not an error
Enumerated(p) == { rd \in ReadDirResults(p) : rd.ok }

\* C22 as stated: the entries a reload leaves are those of every other order
\* in which read_dir could have enumerated the same directory.
C22_ListingIgnoresEnumerationOrder ==
    [][ (current_dir.needs_reload /\ "load_directory" \notin ran)
        => \A rd1, rd2 \in Enumerated(current_dir.path) :
              LoadDirectoryOn(rd1)
              => current_dir'.entries = Listing(current_dir.path, rd2) ]_vars

\* two children of p of the same kind whose names are equal but for case
CaseTwins(p) ==
    \E c1, c2 \in FsChildren(p) :
        /\ c1 # c2
        /\ (c1.meta_ok /\ c1.is_dir) = (c2.meta_ok /\ c2.is_dir)
        /\ to_lowercase(c1.name) = to_lowercase(c2.name)

\* C22 amended: the entries a reload leaves do not depend on the order of
\* the enumeration provided that no two children of the same kind have
\* names that are equal but for letter case; such children keep the order
\* in which they were enumerated.
C22_ListingIgnoresOrderWithoutTwins ==
    [][ ( /\ current_dir.needs_reload
          /\ "load_directory" \notin ran
          /\ ~CaseTwins(current_dir.path) )
        => \A rd1, rd2 \in Enumerated(current_dir.path) :
              LoadDirectoryOn(rd1)
              => current_dir'.entries = Listing(current_dir.path, rd2) ]_vars

\* the root, which has two directories and no twins, has been loaded in full
C22_Witness ==
    /\ "load_directory" \in ran
    /\ "handle_keyboard" \notin ran
    /\ ~current_dir.needs_reload
    /\ current_dir.path = <<>>
    /\ ~CaseTwins(current_dir.path)
    /\ Names(current_dir.entries) = << <<98>>, <<68>>, <<99>> >>

====
